---- MODULE Spec2Model ----
(***************************************************************************)
(* Model of nearest_geopoints.py: the haversine distance, the loader of    *)
(* geopoints.json, the loader of user_location.json and the endpoint       *)
(* find_nearest_geopoints_from_file.                                       *)
(*                                                                         *)
(* Numbers.  Python floats are modelled in binary fixed point with 28      *)
(* fractional bits (ONE = 2^28), every operation rounded to the nearest    *)
(* representable value as IEEE arithmetic rounds to the nearest double.    *)
(* Coordinates are held in units of 1/CoordScale degree, distances in      *)
(* units of 1/DistScale km, reported distances in hundredths of a km.      *)
(***************************************************************************)
EXTENDS Integers, Sequences, FiniteSets, TLC

\* ------------------------------------------------------------------------
\* Fixed-point arithmetic standing for the float operations of the source
\* ------------------------------------------------------------------------
ONE == 268435456
HalfWord == 16384
CoordScale == 100000
DistScale == 10000

Abs(x) == IF x < 0 THEN -x ELSE x

\* Values used more than once are passed as operator arguments, which are
\* evaluated once.

\* high limb product and middle sum of a 14-bit limb multiplication, joined
\* and rounded to nearest
MulJoin(hi, u) ==
  hi + (u \div HalfWord) + (IF (u % HalfWord) >= (HalfWord \div 2) THEN 1 ELSE 0)

MulLimbs(a1, a0, b1, b0) ==
  MulJoin(a1 * b1, a1 * b0 + a0 * b1 + ((a0 * b0) \div HalfWord))

\* a*b / 2^28 for a, b >= 0, rounded to nearest; no intermediate product
\* leaves the 32-bit integers
MulAbs(a, b) ==
  MulLimbs(a \div HalfWord, a % HalfWord, b \div HalfWord, b % HalfWord)

\* float * float
Mul(a, b) ==
  IF (a < 0) # (b < 0) THEN -MulAbs(Abs(a), Abs(b)) ELSE MulAbs(Abs(a), Abs(b))

\* float / small integer, for v >= 0
DivR(v, k) == (v + (k \div 2)) \div k

\* float / 2 (exact in binary floating point; sign-symmetric here)
Half(x) == IF x < 0 THEN -((-x) \div 2) ELSE x \div 2

PI == 843314857
HALFPI == 421657428
QUARTERPI == 210828714

\* math.radians: degrees * (pi / 180); the argument is in coordinate units
RadPerUnit == 786026417
radians(c) == Mul(c * 16, RadPerUnit)

\* one Horner step 1 - x2 * t / k of a Taylor kernel
Horner(x2, t, k) == ONE - DivR(Mul(x2, t), k)

\* Taylor kernels on [-pi/4, pi/4]; x2 is x * x
SinKernel(x, x2) ==
  Mul(x, Horner(x2, Horner(x2, Horner(x2, Horner(x2, Horner(x2, ONE, 110),
                                                     72), 42), 20), 6))

CosKernel(x2) ==
  Horner(x2, Horner(x2, Horner(x2, Horner(x2, Horner(x2, ONE, 90),
                                          56), 30), 12), 2)

SinPoly(x) == SinKernel(x, Mul(x, x))
CosPoly(x) == CosKernel(Mul(x, x))

RECURSIVE SinPos(_)
SinPos(x) ==
  IF x > PI THEN -SinPos(x - PI)
  ELSE IF x > HALFPI THEN SinPos(PI - x)
  ELSE IF x > QUARTERPI THEN CosPoly(HALFPI - x)
  ELSE SinPoly(x)

\* math.sin
sin(x) == IF x < 0 THEN -SinPos(-x) ELSE SinPos(x)

RECURSIVE CosPos(_)
CosPos(x) ==
  IF x > PI THEN -CosPos(x - PI)
  ELSE IF x > HALFPI THEN -CosPos(PI - x)
  ELSE IF x > QUARTERPI THEN SinPoly(HALFPI - x)
  ELSE CosPoly(x)

\* math.cos
cos(x) == CosPos(Abs(x))

\* y*y as <<high, low>> with y*y = high * 2^28 + low, from the limb products
SquareJoin(hh, t, ll) ==
  << hh + (t \div HalfWord) + (((t % HalfWord) * HalfWord + ll) \div ONE),
     ((t % HalfWord) * HalfWord + ll) % ONE >>

SquareLimbs(y1, y0) == SquareJoin(y1 * y1, 2 * y1 * y0, y0 * y0)

Square(y) == SquareLimbs(y \div HalfWord, y % HalfWord)

\* s = y*y is at most x * 2^28
SquareAtMost(s, x) == s[1] < x \/ (s[1] = x /\ s[2] = 0)

\* largest y in [lo, hi) with y*y <= x * 2^28, by bisection
RECURSIVE SqrtSearch(_, _, _)
RECURSIVE SqrtBisect(_, _, _, _)
SqrtBisect(x, lo, hi, m) ==
  IF SquareAtMost(Square(m), x) THEN SqrtSearch(x, m, hi) ELSE SqrtSearch(x, lo, m)

SqrtSearch(x, lo, hi) ==
  IF hi - lo <= 1 THEN lo ELSE SqrtBisect(x, lo, hi, (lo + hi) \div 2)

\* y*y + y < x * 2^28, where s = y*y: the root lies above y + 1/2
RootAboveHalf(s, y, x) == (IF s[2] + y >= ONE THEN s[1] + 1 ELSE s[1]) < x

SqrtRound(x, y) == IF RootAboveHalf(Square(y), y, x) THEN y + 1 ELSE y

\* math.sqrt for x >= 0, correctly rounded; the caller checks the domain
sqrt(x) == SqrtRound(x, SqrtSearch(x, 0, 2 * ONE))

\* atan(2^-i) for i = 0 .. 28
AtanTable ==
  << 210828714, 124459457, 65760959, 33381290, 16755422, 8385879,
     4193963, 2097109, 1048571, 524287, 262144, 131072, 65536, 32768,
     16384, 8192, 4096, 2048, 1024, 512, 256, 128, 64, 32, 16, 8, 4, 2, 1 >>

\* rotation of the vector (x, y) onto the positive x axis, p = 2^i
RECURSIVE Cordic(_, _, _, _, _)
Cordic(x, y, z, i, p) ==
  IF i > 28 THEN z
  ELSE IF y > 0
  THEN Cordic(x + (y \div p), y - (x \div p), z + AtanTable[i + 1], i + 1, 2 * p)
  ELSE IF y < 0
  THEN Cordic(x - (y \div p), y + (x \div p), z - AtanTable[i + 1], i + 1, 2 * p)
  ELSE Cordic(x, y, z, i + 1, 2 * p)

\* math.atan2(y, x) for x >= 0 (both arguments are square roots here)
atan2(y, x) == Cordic(x, y, 0, 0, 1)

\* ------------------------------------------------------------------------
\* haversine_distance
\* ------------------------------------------------------------------------
EarthRadiusKm == 6371

\* a raised ValueError("math domain error"), or a float result in km
ValueError == [exc |-> "ValueError", val |-> 0]
Returned(v) == [exc |-> "none", val |-> v]

\* line 52 with the product cos(lat1) * cos(lat1)
HaversineTerm_SameCos(sdlat, sdlon, cos1, cos2) ==
  Mul(sdlat, sdlat) + Mul(Mul(cos1, cos1), Mul(sdlon, sdlon))

\* line 52: a = sin(dlat / 2)**2 + cos(lat1_rad) * cos(lat2_rad) * sin(dlon / 2)**2
\* from sdlat = sin(dlat / 2), sdlon = sin(dlon / 2) and the two cosines
HaversineTerm(sdlat, sdlon, cos1, cos2) ==
  Mul(sdlat, sdlat) + Mul(Mul(cos1, cos2), Mul(sdlon, sdlon))

\* lines 48-52
HaversineRad(lat1_rad, lon1_rad, lat2_rad, lon2_rad) ==
  LET dlon == lon2_rad - lon1_rad
      dlat == lat2_rad - lat1_rad
  IN  HaversineTerm(sin(Half(dlat)), sin(Half(dlon)), cos(lat1_rad), cos(lat2_rad))

\* lines 42-52: the term a
HaversineA(lat1, lon1, lat2, lon2) ==
  HaversineRad(radians(lat1), radians(lon1), radians(lat2), radians(lon2))

\* lines 53-57.  math.sqrt raises ValueError on a negative argument: sqrt(a)
\* when a < 0, sqrt(1 - a) when rounding has carried a above 1.
DistanceFromA(a) ==
  IF a < 0 \/ ONE - a < 0
  THEN ValueError
  ELSE Returned(Mul(2 * atan2(sqrt(a), sqrt(ONE - a)), EarthRadiusKm * DistScale))

haversine_distance(lat1, lon1, lat2, lon2) ==
  DistanceFromA(HaversineA(lat1, lon1, lat2, lon2))

\* round(distance, 2): to the nearest hundredth of a km, ties to even;
\* q and r are quotient and remainder by the rounding step
RoundHalfEven(q, r, step) ==
  IF 2 * r > step THEN q + 1
  ELSE IF 2 * r < step THEN q
  ELSE IF q % 2 = 0 THEN q ELSE q + 1

Round2(d) == RoundHalfEven(d \div (DistScale \div 100), d % (DistScale \div 100),
                           DistScale \div 100)

\* ------------------------------------------------------------------------
\* Parsed JSON
\* ------------------------------------------------------------------------
Num(v) == [t |-> "num", v |-> v, s |-> ""]
Str(x) == [t |-> "str", v |-> 0, s |-> x]
Bool(b) == [t |-> "bool", v |-> IF b THEN 1 ELSE 0, s |-> ""]
Null == [t |-> "null", v |-> 0, s |-> ""]

Deg(n) == n * CoordScale

NoFields == [k \in {} |-> Null]
Dict(f) == [t |-> "dict", f |-> f]
NumberItem == [t |-> "num", f |-> NoFields]
NullItem == [t |-> "null", f |-> NoFields]
EmptyListItem == [t |-> "list", f |-> NoFields]

Point(id, lat, lon) ==
  Dict([id |-> Str(id), name |-> Str(id), latitude |-> lat, longitude |-> lon])

\* isinstance(x, (int, float)): bool is a subclass of int
IsIntOrFloat(x) == x.t \in {"num", "bool"}

\* the float a coordinate value converts to (True is 1, False is 0)
CoordOf(x) == IF x.t = "bool" THEN Deg(x.v) ELSE x.v

\* ------------------------------------------------------------------------
\* Contents the two input files are drawn from
\* ------------------------------------------------------------------------
MaxHead == 2
MaxFill == 10

\* a run of valid points one coordinate unit (about 1.1 m) apart
Filler(i) == Point("F", Num(0), Num(Deg(10) - i))
RECURSIVE Fill(_)
Fill(n) == IF n = 0 THEN <<>> ELSE Append(Fill(n - 1), Filler(n))

RawItems ==
  { Point("A", Num(0), Num(Deg(10))),
    Point("Z", Num(Deg(-8)), Num(Deg(180))),
    Dict([id |-> Str("M"), name |-> Str("M"), longitude |-> Num(0)]),
    Point("S", Str("12.5"), Num(0)),
    Point("B", Bool(TRUE), Num(0)),
    NumberItem, NullItem, EmptyListItem }

RECURSIVE SeqsUpTo(_, _)
SeqsUpTo(S, n) ==
  IF n = 0 THEN {<<>>}
  ELSE LET shorter == SeqsUpTo(S, n - 1)
       IN  shorter \cup {Append(q, x) : q \in shorter, x \in S}

\* geopoints.json: absent, not JSON, a JSON value that is not a list, a list
FileMissing == [t |-> "missing", items |-> <<>>]
FileBadJson == [t |-> "badjson", items |-> <<>>]
FileNotList == [t |-> "dict", items |-> <<>>]
FileList(items) == [t |-> "list", items |-> items]

GeoFiles ==
  {FileMissing, FileBadJson, FileNotList}
    \cup {FileList(h \o Fill(n)) : h \in SeqsUpTo(RawItems, MaxHead), n \in 0..MaxFill}

\* user_location.json
Location(lat, lon) == Dict([latitude |-> lat, longitude |-> lon])
UserMissing == [t |-> "missing", f |-> NoFields]
UserBadJson == [t |-> "badjson", f |-> NoFields]
UserFiles ==
  { UserMissing, UserBadJson, EmptyListItem,
    Dict([latitude |-> Num(0)]),
    Location(Num(0), Str("1.0")),
    Location(Num(0), Null),
    Location(Bool(TRUE), Num(0)),
    Location(Num(0), Num(0)),
    Location(Num(Deg(8)), Num(0)) }
NoUser == [t |-> "unread", f |-> NoFields]

\* ------------------------------------------------------------------------
\* State
\* ------------------------------------------------------------------------
VARIABLES
  geofile,             \* content of geopoints.json
  geopoints,           \* the module-level list
  lpc,                 \* position of lifespan / load_geopoints
  idx,                 \* loop position of "for item in data"
  validated_data,      \* local list of load_geopoints
  load_result,         \* value load_geopoints returns
  qpc,                 \* position of find_nearest_geopoints_from_file
  seen,                \* the list the test "if not geopoints" read
  user_location_data,  \* content of user_location.json read by the request
  distances,           \* local list "distances" after the sort
  response,            \* what the request handed back
  hlat1, hlon1, hlat2, hlon2, hpc, hfwd, hrev   \* a direct call of haversine_distance

svars == <<geofile, geopoints, lpc, idx, validated_data, load_result,
           qpc, seen, user_location_data, distances, response>>
hvars == <<hlat1, hlon1, hlat2, hlon2, hpc, hfwd, hrev>>
vars == <<svars, hvars>>

\* ------------------------------------------------------------------------
\* load_geopoints, called by lifespan at startup
\* ------------------------------------------------------------------------
RequiredKeys == {"id", "name", "latitude", "longitude"}

\* what the loop body does with one item: "append", "skip" (continue), or
\* "raise" when "k in item" is applied to an item that is not a container
\* (TypeError: argument of type ... is not iterable)
ItemOutcome(item) ==
  IF item.t \in {"num", "null"} THEN "raise"
  ELSE IF item.t = "list" THEN "skip"
  ELSE IF ~(RequiredKeys \subseteq DOMAIN item.f) THEN "skip"
  ELSE IF ~IsIntOrFloat(item.f.latitude) \/ ~IsIntOrFloat(item.f.longitude)
       THEN "skip"
  ELSE "append"

\* a loader that appends to the module-level list as it goes
AppendValidated_Global(vd, gp, item) == <<Append(vd, item), Append(gp, item)>>

\* validated_data.append(item): validated_data is a local list, the
\* module-level list is untouched.  The pair is <<validated_data, geopoints>>.
AppendValidated(vd, gp, item) == <<Append(vd, item), gp>>

\* lines 72-84: the file checks and the start of the loop
LoadOpen ==
  /\ lpc = "startup"
  /\ IF geofile.t = "list"
     THEN /\ lpc' = "loop"
          /\ idx' = 1
          /\ validated_data' = <<>>
          /\ UNCHANGED load_result
     ELSE /\ lpc' = "returned"
          /\ load_result' = <<>>
          /\ UNCHANGED <<idx, validated_data>>
  /\ UNCHANGED <<geofile, geopoints, qpc, seen, user_location_data,
                 distances, response, hvars>>

\* lines 85-94: one iteration; an exception leaves through line 100-103
LoadItem ==
  /\ lpc = "loop"
  /\ idx <= Len(geofile.items)
  /\ \E item \in {geofile.items[idx]} :
       \/ /\ ItemOutcome(item) = "append"
          /\ validated_data' = AppendValidated(validated_data, geopoints, item)[1]
          /\ geopoints' = AppendValidated(validated_data, geopoints, item)[2]
          /\ idx' = idx + 1
          /\ UNCHANGED <<lpc, load_result>>
       \/ /\ ItemOutcome(item) = "skip"
          /\ idx' = idx + 1
          /\ UNCHANGED <<lpc, load_result, validated_data, geopoints>>
       \/ /\ ItemOutcome(item) = "raise"
          /\ lpc' = "returned"
          /\ load_result' = <<>>
          /\ UNCHANGED <<idx, validated_data, geopoints>>
  /\ UNCHANGED <<geofile, qpc, seen, user_location_data, distances,
                 response, hvars>>

\* line 95: return validated_data
LoadReturn ==
  /\ lpc = "loop"
  /\ idx > Len(geofile.items)
  /\ lpc' = "returned"
  /\ load_result' = validated_data
  /\ UNCHANGED <<geofile, geopoints, idx, validated_data, qpc, seen,
                 user_location_data, distances, response, hvars>>

\* line 151: geopoints = load_geopoints(GEODATA_FILE), then the yield
LifespanAssign ==
  /\ lpc = "returned"
  /\ geopoints' = load_result
  /\ lpc' = "serving"
  /\ UNCHANGED <<geofile, idx, validated_data, load_result, qpc, seen,
                 user_location_data, distances, response, hvars>>

\* ------------------------------------------------------------------------
\* load_user_location
\* ------------------------------------------------------------------------
\* the exception that leaves load_user_location, or "none".  A ValueError
\* raised inside the try block (lines 125, 128, 131) is caught by the
\* "except Exception" of line 136 and leaves as RuntimeError.
load_user_location(u) ==
  IF u.t = "missing" THEN "FileNotFoundError"
  ELSE IF u.t = "badjson" THEN "ValueError"
  ELSE IF u.t # "dict" THEN "RuntimeError"
  ELSE IF ~({"latitude", "longitude"} \subseteq DOMAIN u.f) THEN "RuntimeError"
  ELSE IF ~IsIntOrFloat(u.f.latitude) \/ ~IsIntOrFloat(u.f.longitude)
       THEN "RuntimeError"
  ELSE "none"

\* ------------------------------------------------------------------------
\* find_nearest_geopoints_from_file
\* ------------------------------------------------------------------------
K == 10

NoResponse == [kind |-> "none", status |-> 0, detail |-> "", body |-> <<>>]
NoDataFailure ==
  [kind |-> "HTTPException", status |-> 500,
   detail |-> "Geopoints data not loaded", body |-> <<>>]
UserLocationFailure ==
  [kind |-> "HTTPException", status |-> 500,
   detail |-> "Error loading user location", body |-> <<>>]
\* an exception no handler of the endpoint catches
Unhandled(exc) == [kind |-> exc, status |-> 500, detail |-> "", body |-> <<>>]
Ok(body) == [kind |-> "ok", status |-> 200, detail |-> "", body |-> body]

\* a test that never finds the dataset missing
DatasetNotLoaded_Never(gp) == FALSE

\* line 185: "if not geopoints"
DatasetNotLoaded(gp) == gp = <<>>

\* line 207: the appended entry.  pos (index in the dataset) and distance
\* (the unrounded value of line 202) are kept beside the two reported fields.
Entry(geopoint, i, km) ==
  [geopoint |-> geopoint, distance_km |-> Round2(km), pos |-> i, distance |-> km]

\* lines 201-207: the loop appends one entry per geopoint and stops at the
\* ValueError haversine_distance raises
RECURSIVE DistanceLoop(_, _, _, _, _)
RECURSIVE DistanceStep(_, _, _, _, _, _)
DistanceStep(gp, ulat, ulon, i, acc, distance) ==
  IF distance.exc # "none"
  THEN [exc |-> distance.exc, list |-> <<>>]
  ELSE DistanceLoop(gp, ulat, ulon, i + 1, Append(acc, Entry(gp[i], i, distance.val)))

DistanceLoop(gp, ulat, ulon, i, acc) ==
  IF i > Len(gp) THEN [exc |-> "none", list |-> acc]
  ELSE DistanceStep(gp, ulat, ulon, i, acc,
                    haversine_distance(ulat, ulon, CoordOf(gp[i].f.latitude),
                                       CoordOf(gp[i].f.longitude)))

DistanceEntries(gp, ulat, ulon) == DistanceLoop(gp, ulat, ulon, 1, <<>>)

InsertAt(sorted, e, n) ==
  SubSeq(sorted, 1, n) \o <<e>> \o SubSeq(sorted, n + 1, Len(sorted))

\* insertion in front of the entries with an equal key
InsertByKey_BeforeEqual(sorted, e) ==
  InsertAt(sorted, e, Cardinality({i \in 1..Len(sorted) :
                                     sorted[i].distance_km < e.distance_km}))

\* insertion behind the entries with a smaller or equal key
InsertByKey(sorted, e) ==
  InsertAt(sorted, e, Cardinality({i \in 1..Len(sorted) :
                                     sorted[i].distance_km <= e.distance_km}))

\* line 210: list.sort(key = distance_km), a stable sort
RECURSIVE SortByDistance(_)
SortByDistance(list) ==
  IF list = <<>> THEN <<>>
  ELSE InsertByKey(SortByDistance(SubSeq(list, 1, Len(list) - 1)), list[Len(list)])

\* distances[:n]
Take(list, n) == SubSeq(list, 1, IF Len(list) < n THEN Len(list) ELSE n)

RECURSIVE Reported(_)
Reported(list) ==
  IF list = <<>> THEN <<>>
  ELSE <<[geopoint |-> Head(list).geopoint,
          distance_km |-> Head(list).distance_km]>> \o Reported(Tail(list))

\* lines 185-187
QueryCheck ==
  /\ qpc = "idle"
  /\ seen' = geopoints
  /\ user_location_data' = NoUser
  /\ distances' = <<>>
  /\ IF DatasetNotLoaded(geopoints)
     THEN /\ response' = NoDataFailure
          /\ UNCHANGED qpc
     ELSE /\ response' = NoResponse
          /\ qpc' = "checked"
  /\ UNCHANGED <<geofile, geopoints, lpc, idx, validated_data, load_result,
                 hvars>>

\* lines 189-213; the content of user_location.json is whatever the file
\* holds at the time of the request
QueryRun ==
  /\ qpc = "checked"
  /\ \E u \in UserFiles :
       /\ user_location_data' = u
       /\ IF load_user_location(u) # "none"
          THEN /\ response' = UserLocationFailure
               /\ distances' = <<>>
          ELSE \E r \in {DistanceEntries(geopoints, CoordOf(u.f.latitude),
                                         CoordOf(u.f.longitude))} :
                 IF r.exc # "none"
                 THEN /\ response' = Unhandled(r.exc)
                      /\ distances' = <<>>
                 ELSE /\ distances' = SortByDistance(r.list)
                      /\ response' = Ok(Reported(Take(distances', K)))
  /\ qpc' = "idle"
  /\ UNCHANGED <<geofile, geopoints, lpc, idx, validated_data, load_result,
                 seen, hvars>>

\* ------------------------------------------------------------------------
\* The service: startup load interleaved with requests
\* ------------------------------------------------------------------------
HavIdle ==
  /\ hlat1 = 0 /\ hlon1 = 0 /\ hlat2 = 0 /\ hlon2 = 0
  /\ hpc = "off" /\ hfwd = Returned(0) /\ hrev = Returned(0)

Init ==
  /\ geofile \in GeoFiles
  /\ geopoints = <<>>
  /\ lpc = "startup"
  /\ idx = 0
  /\ validated_data = <<>>
  /\ load_result = <<>>
  /\ qpc = "idle"
  /\ seen = <<>>
  /\ user_location_data = NoUser
  /\ distances = <<>>
  /\ response = NoResponse
  /\ HavIdle

Next ==
  \/ LoadOpen
  \/ LoadItem
  \/ LoadReturn
  \/ LifespanAssign
  \/ QueryCheck
  \/ QueryRun

Spec == Init /\ [][Next]_vars

\* ------------------------------------------------------------------------
\* haversine_distance called directly on pairs of coordinates
\* ------------------------------------------------------------------------
HavSpan == 2
HavLats == {Deg(8 * d) : d \in (-HavSpan)..HavSpan}
HavLons == {Deg(60 * d) : d \in (-HavSpan)..HavSpan}

HavInit ==
  /\ hlat1 \in HavLats /\ hlon1 \in HavLons
  /\ hlat2 \in HavLats /\ hlon2 \in HavLons
  /\ hpc = "args" /\ hfwd = Returned(0) /\ hrev = Returned(0)
  /\ geofile = FileMissing
  /\ geopoints = <<>>
  /\ lpc = "off"
  /\ idx = 0
  /\ validated_data = <<>>
  /\ load_result = <<>>
  /\ qpc = "off"
  /\ seen = <<>>
  /\ user_location_data = NoUser
  /\ distances = <<>>
  /\ response = NoResponse

HavCall ==
  /\ hpc = "args"
  /\ hfwd' = haversine_distance(hlat1, hlon1, hlat2, hlon2)
  /\ hrev' = haversine_distance(hlat2, hlon2, hlat1, hlon1)
  /\ hpc' = "returned"
  /\ UNCHANGED <<hlat1, hlon1, hlat2, hlon2, svars>>

HavNext == HavCall

HavSpec == HavInit /\ [][HavNext]_vars

\* ------------------------------------------------------------------------
\* Properties
\* ------------------------------------------------------------------------
\* a JSON number (true, false, null, strings and containers are not)
IsNumber(x) == x.t = "num"

\* a point record as the data model describes it
ValidPoint(item) ==
  /\ item.t = "dict"
  /\ RequiredKeys \subseteq DOMAIN item.f
  /\ IsNumber(item.f.latitude)
  /\ IsNumber(item.f.longitude)

\* a reference location with both coordinates numeric
ValidReference(u) ==
  /\ u.t = "dict"
  /\ {"latitude", "longitude"} \subseteq DOMAIN u.f
  /\ IsNumber(u.f.latitude)
  /\ IsNumber(u.f.longitude)

\* a reference object lacking a coordinate or carrying a non-numeric one
MalformedReference(u) ==
  /\ u.t = "dict"
  /\ \/ ~({"latitude", "longitude"} \subseteq DOMAIN u.f)
     \/ ~IsNumber(u.f.latitude)
     \/ ~IsNumber(u.f.longitude)

\* a request has run to its end on a dataset that was not empty
AnsweredOnData ==
  /\ qpc = "idle"
  /\ response.kind # "none"
  /\ seen # <<>>
  /\ user_location_data # NoUser

Min(a, b) == IF a < b THEN a ELSE b

\* C1: on a non-empty dataset of N points and a valid reference location the
\* request returns exactly min(10, N) results.
C1_ResultCount ==
  (AnsweredOnData /\ ValidReference(user_location_data))
    => (response.kind = "ok" /\ Len(response.body) = Min(K, Len(seen)))

\* C2: the returned results are in non-decreasing order of distance_km and
\* results with equal distance_km keep the order their points have in the
\* dataset; each result is the dataset point at the recorded position.
C2_SortedStable ==
  response.kind = "ok" =>
    /\ Len(response.body) <= Len(distances)
    /\ \A i \in 1..Len(response.body) :
         /\ response.body[i].geopoint = seen[distances[i].pos]
         /\ response.body[i].distance_km = distances[i].distance_km
    /\ \A i, j \in 1..Len(response.body) :
         i < j =>
           /\ response.body[i].distance_km <= response.body[j].distance_km
           /\ (response.body[i].distance_km = response.body[j].distance_km
                 => distances[i].pos < distances[j].pos)

\* C2 witness: a response with a tie, a strict increase, and an order that
\* differs from the dataset order
C2_Witness ==
  /\ response.kind = "ok"
  /\ distances[1].pos # 1
  /\ \E i, j \in 1..Len(response.body) :
       i < j /\ response.body[i].distance_km = response.body[j].distance_km
  /\ \E i, j \in 1..Len(response.body) :
       response.body[i].distance_km < response.body[j].distance_km

\* C3: with more than 10 points, no point left out of the result is strictly
\* closer to the reference (by haversine_distance) than a point in the result.
C3_KClosest ==
  (response.kind = "ok" /\ Len(seen) > K) =>
    \A j \in (K + 1)..Len(distances) : \A i \in 1..K :
      ~(distances[j].distance < distances[i].distance)

AllRecords(items) == \A i \in 1..Len(items) : items[i].t = "dict"

\* C4: for a feed of records, the loaded dataset is the subsequence of the
\* valid records of the feed, in feed order.
C4_ValidSubsequence ==
  (lpc = "serving" /\ geofile.t = "list" /\ AllRecords(geofile.items))
    => geopoints = SelectSeq(geofile.items, ValidPoint)

\* C5: while the loaded dataset is empty no request gets past the no-data
\* check: every answer is the no-data failure and carries no results.
C5_NoData ==
  (lpc = "serving" /\ geopoints = <<>>)
    => /\ qpc = "idle"
       /\ response \in {NoResponse, NoDataFailure}
       /\ response.body = <<>>
       /\ distances = <<>>

\* C5 witness: a feed whose records were all rejected, queried
C5_Witness ==
  /\ lpc = "serving"
  /\ geopoints = <<>>
  /\ geofile.t = "list"
  /\ geofile.items # <<>>
  /\ response = NoDataFailure

\* C6: on a non-empty dataset, a reference location lacking a coordinate or
\* carrying a non-numeric one ends the request in the user-location failure,
\* which carries no results and differs from the no-data failure.
C6_InvalidReference ==
  (AnsweredOnData /\ MalformedReference(user_location_data))
    => /\ response = UserLocationFailure
       /\ response # NoDataFailure
       /\ response.body = <<>>

\* C7: the module-level list is the initial empty list until the load has
\* returned and is the complete returned list afterwards, never the list
\* under construction; the second read of a request sees the list its first
\* read saw.
C7_NoPartialDataset ==
  /\ lpc # "serving" => geopoints = <<>>
  /\ lpc = "serving" => geopoints = load_result
  /\ (lpc = "serving" /\ geopoints # <<>>)
       => (idx > Len(geofile.items) /\ geopoints = validated_data)
  /\ qpc = "checked" => (geopoints = seen /\ seen # <<>>)

\* C7 witness: a request answered while the loader held a non-empty prefix
C7_Witness ==
  /\ lpc = "loop"
  /\ validated_data # <<>>
  /\ idx <= Len(geofile.items)
  /\ response = NoDataFailure
  /\ seen = <<>>

\* C8: haversine_distance gives the same outcome with its two points swapped.
C8_Symmetric == hpc = "returned" => hfwd = hrev

\* C8 witness: a distance between points that differ in both coordinates
C8_Witness ==
  /\ hpc = "returned"
  /\ hfwd.exc = "none"
  /\ hfwd.val > 0
  /\ Abs(hlat1) # Abs(hlat2)
  /\ hlon1 # hlon2

\* C9: whatever the shape of the other elements of a list feed, every valid
\* record of the feed enters the dataset, in feed order.
C9_InvalidNeverFatal ==
  (lpc = "serving" /\ geofile.t = "list")
    => SelectSeq(geopoints, ValidPoint) = SelectSeq(geofile.items, ValidPoint)

\* C10: no record with a non-numeric latitude or longitude is in the dataset,
\* and no reference location with one is accepted by load_user_location.
C10_NumericOnly ==
  /\ \A i \in 1..Len(geopoints) :
       IsNumber(geopoints[i].f.latitude) /\ IsNumber(geopoints[i].f.longitude)
  /\ (user_location_data # NoUser /\ load_user_location(user_location_data) = "none")
       => ValidReference(user_location_data)

====
